---- MODULE Spec2Model ----
(***************************************************************************)
(* Region resolution middleware of the storefront                          *)
(* (src/apps/storefront/src/middleware.ts).                                 *)
(*                                                                         *)
(* The source file holds two revisions of the module.  getRegionMap and    *)
(* getCountryCode are the same text in both (lines 13-99 and 158-244); the  *)
(* model follows the second revision (lines 146-344), the one with the     *)
(* empty-directory branch.                                                 *)
(*                                                                         *)
(* Strings are modelled as atoms.  A pathname, which always starts with    *)
(* "/", is the sequence of the segments that follow each "/":              *)
(*   "/" = <<"">>,  "/us" = <<"us">>,  "/us/" = <<"us", "">>,              *)
(*   "//dk" = <<"", "dk">>,                                                *)
(* so pathname.split("/")[1] is the first element of the sequence.         *)
(* A JavaScript Map is the sequence of its entries in insertion order.     *)
(***************************************************************************)
EXTENDS Integers, Sequences, FiniteSets

VARIABLES
    regionMapCache,   \* module-scoped cache: [regionMap, regionMapUpdated]
    now,              \* Date.now(), in milliseconds since module load
    BACKEND_URL,      \* process.env.NEXT_PUBLIC_MEDUSA_BACKEND_URL
    ENV_DEFAULT_REGION, \* process.env.NEXT_PUBLIC_DEFAULT_REGION
    inv               \* the middleware invocations in flight, per slot

vars == <<regionMapCache, now, BACKEND_URL, ENV_DEFAULT_REGION, inv>>

(***************************************************************************)
(* Values                                                                  *)
(***************************************************************************)
\* JavaScript undefined (an unset variable, a missing header, cookie or field)
Undefined == "<undefined>"

\* JavaScript truthiness of a string-or-undefined value
Truthy(s) == s # Undefined /\ s # ""

\* String.prototype.toLowerCase on the strings of the model
toLowerCase(s) ==
    CASE s = "US" -> "us"
      [] s = "DK" -> "dk"
      [] OTHER -> s

\* String.prototype.includes(".") on one path segment
SegmentHasDot(s) == s \in {"logo.png"}

\* pathname.includes(".")
includesDot(pathname) == \E i \in 1..Len(pathname) : SegmentHasDot(pathname[i])

\* pathname.split("/")[1]
firstSplit(pathname) == pathname[1]

\* pathname.split("/").filter(Boolean)[0]
RECURSIVE firstNonEmpty(_)
firstNonEmpty(pathname) ==
    IF pathname = <<>> THEN Undefined
    ELSE IF pathname[1] # "" THEN pathname[1]
    ELSE firstNonEmpty(Tail(pathname))

(***************************************************************************)
(* Map<string, StoreRegion>                                                *)
(***************************************************************************)
EmptyMap == <<>>

MapHas(m, k) == \E i \in 1..Len(m) : m[i].key = k

MapGet(m, k) == LET i == CHOOSE i \in 1..Len(m) : m[i].key = k IN m[i].region

MapKeys(m) == {m[i].key : i \in 1..Len(m)}

\* faulty variant of MapSet: a key that is already present keeps its old value
MapSetKeepsFirst(m, k, v) ==
    IF \E i \in 1..Len(m) : m[i].key = k THEN m
    ELSE Append(m, [key |-> k, region |-> v])

\* Map.prototype.set: an existing key keeps its position, a new key is appended
MapSet(m, k, v) ==
    IF MapHas(m, k)
    THEN [i \in 1..Len(m) |-> IF m[i].key = k THEN [key |-> k, region |-> v] ELSE m[i]]
    ELSE Append(m, [key |-> k, region |-> v])

\* map.keys().next().value
firstKey(m) == IF Len(m) = 0 THEN Undefined ELSE m[1].key

(***************************************************************************)
(* Configuration and program constants                                     *)
(***************************************************************************)
\* const DEFAULT_REGION = process.env.NEXT_PUBLIC_DEFAULT_REGION || "dk"
DEFAULT_REGION == IF Truthy(ENV_DEFAULT_REGION) THEN ENV_DEFAULT_REGION ELSE "dk"

\* the freshness window of the cache: 3600 * 1000 ms
RefreshWindow == 3600 * 1000

\* maxAge of the _medusa_cache_id cookie: 60 * 60 * 24 s
CookieMaxAge == 60 * 60 * 24

\* status of NextResponse.redirect(url, 307)
RedirectStatus == 307

\* request.nextUrl.origin
Origin == "https://shop.example"

(***************************************************************************)
(* Bounds of the model                                                     *)
(***************************************************************************)
\* the clock advances in steps of half a freshness window, MaxTicks times
MaxTicks == 3

TickLength == RefreshWindow \div 2

Procs == {1, 2}

\* pathnames: "/", "/us", "/US/products", "/dk", "/products/shirt",
\* "/logo.png", "/us/logo.png", "//dk"
Pathnames ==
    { <<"">>, <<"us">>, <<"US", "products">>, <<"dk">>,
      <<"products", "shirt">>, <<"logo.png">>, <<"us", "logo.png">>,
      <<"", "dk">> }

Searches == {"", "?q=1"}

\* request.cf?.country
CfCountries == {Undefined, "US"}

\* header x-vercel-ip-country
VercelCountries == {Undefined, "DK"}

\* cookie _medusa_cache_id: absent, present with an empty value, or present
\* with a value
Cookies == {Undefined, "", "c1"}

\* crypto.randomUUID()
UUIDs == {"uuid-1"}

Requests ==
    [pathname : Pathnames, search : Searches, cf : CfCountries,
     vercel : VercelCountries, cookie : Cookies]

\* The requests of the concurrent specification.  Slot 1 serves every
\* pathname without hints, cookie or query, and one request with each of
\* these; slot 2, the invocation that races it, serves one request (what an
\* invocation does to the shared cache does not depend on its request).
BareRequest(pathname) ==
    [pathname |-> pathname, search |-> "", cf |-> Undefined, vercel |-> Undefined,
     cookie |-> Undefined]

ConcurrentRequests(p) ==
    IF p = 1
    THEN { BareRequest(pathname) : pathname \in Pathnames }
         \cup { [BareRequest(<<"products", "shirt">>) EXCEPT !.cf = "US", !.vercel = "DK"],
                [BareRequest(<<"us">>) EXCEPT !.cookie = "c1"],
                [BareRequest(<<"">>) EXCEPT !.search = "?q=1"] }
    ELSE { BareRequest(<<"products", "shirt">>) }

\* region lists GET /store/regions can answer with: no region; a region
\* without countries; one country; two countries that share "us" with the
\* previous list; a country whose iso_2 is missing
RegionLists ==
    { <<>>,
      << [id |-> "reg_0", countries |-> <<>>] >>,
      << [id |-> "reg_1", countries |-> <<"us">>] >>,
      << [id |-> "reg_2", countries |-> <<"dk", "us">>] >>,
      << [id |-> "reg_3", countries |-> <<Undefined>>] >> }

\* what fetch resolves with: a non-success status, or 200 and a region list
FetchResponses ==
    { [status |-> 500, regions |-> <<>>] }
    \cup { [status |-> 200, regions |-> l] : l \in RegionLists }

\* faulty variant of ok: every status from 200 up counts as a success
okFrom200(response) == response.status >= 200

\* response.ok
ok(response) == response.status >= 200 /\ response.status <= 299

(***************************************************************************)
(* getRegionMap                                                            *)
(***************************************************************************)
\* the refresh condition, lines 167-170
needsRefresh(cache, t) ==
    \/ ~Truthy(firstKey(cache.regionMap))
    \/ cache.regionMapUpdated < t - RefreshWindow

\* region.countries?.forEach((c) => regionMap.set(c.iso_2 ?? "", region))
RECURSIVE setCountries(_, _, _)
setCountries(m, countries, region) ==
    IF countries = <<>> THEN m
    ELSE setCountries(
           MapSet(m, IF Head(countries) = Undefined THEN "" ELSE Head(countries),
                  region),
           Tail(countries), region)

\* regions.forEach(...), lines 197-201
RECURSIVE populate(_, _)
populate(m, regions) ==
    IF regions = <<>> THEN m
    ELSE populate(setCountries(m, Head(regions).countries, Head(regions).id),
                  Tail(regions))

\* the cache after a fetched region list has been processed, lines 192-204
refreshed(cache, regions, t) ==
    IF Len(regions) = 0 THEN cache
    ELSE [regionMap |-> populate(cache.regionMap, regions),
          regionMapUpdated |-> t]

(***************************************************************************)
(* getCountryCode, lines 214-244                                           *)
(***************************************************************************)
getCountryCode(request, regionMap) ==
    LET urlCountryCode == toLowerCase(firstSplit(request.pathname))
        cloudflareCountryCode ==
            IF request.cf = Undefined THEN Undefined ELSE toLowerCase(request.cf)
        vercelCountryCode ==
            IF request.vercel = Undefined THEN Undefined
            ELSE toLowerCase(request.vercel)
    IN  IF Truthy(urlCountryCode) /\ MapHas(regionMap, urlCountryCode)
          THEN urlCountryCode
        ELSE IF Truthy(cloudflareCountryCode) /\ MapHas(regionMap, cloudflareCountryCode)
          THEN cloudflareCountryCode
        ELSE IF Truthy(vercelCountryCode) /\ MapHas(regionMap, vercelCountryCode)
          THEN vercelCountryCode
        ELSE IF MapHas(regionMap, DEFAULT_REGION)
          THEN DEFAULT_REGION
        ELSE IF Truthy(firstKey(regionMap))
          THEN firstKey(regionMap)
        ELSE Undefined

(***************************************************************************)
(* middleware, lines 249-338                                               *)
(***************************************************************************)
NoUrl == [origin |-> "", pathname |-> <<>>, search |-> ""]

\* what an invocation has produced so far: nothing yet
NoResult ==
    [kind |-> "none", status |-> 0, url |-> NoUrl, setCookie |-> <<>>, error |-> ""]

\* NextResponse.next()
nextResponse ==
    [kind |-> "next", status |-> 200, url |-> NoUrl, setCookie |-> <<>>, error |-> ""]

\* nextResponse.cookies.set("_medusa_cache_id", cacheId, { maxAge: 60 * 60 * 24 })
nextWithCookie(cacheId) ==
    [nextResponse EXCEPT !.setCookie =
        << [name |-> "_medusa_cache_id", value |-> cacheId, maxAge |-> CookieMaxAge] >>]

\* NextResponse.redirect(`${origin}/${country}${redirectPath}${queryString}`, 307)
redirectResponse(country, redirectPath, queryString) ==
    [kind |-> "redirect", status |-> RedirectStatus,
     url |-> [origin |-> Origin, pathname |-> <<country>> \o redirectPath,
              search |-> queryString],
     setCookie |-> <<>>, error |-> ""]

\* the initial value of `response`, lines 250-252: a redirect to the request's href
hrefRedirect(request) ==
    [kind |-> "redirect", status |-> RedirectStatus,
     url |-> [origin |-> Origin, pathname |-> request.pathname,
              search |-> request.search],
     setCookie |-> <<>>, error |-> ""]

\* the message of the Error of lines 162-164
MissingBackendUrl ==
    "Middleware.ts: Error fetching regions. Did you set up regions in your Medusa Admin and define a NEXT_PUBLIC_MEDUSA_BACKEND_URL environment variable."

\* an Error thrown out of middleware
thrown(message) ==
    [kind |-> "error", status |-> 0, url |-> NoUrl, setCookie |-> <<>>,
     error |-> message]

\* faulty variant of redirectPathOf: the root path keeps its "/"
redirectPathKeepsRoot(pathname) == pathname

\* const redirectPath = pathname === "/" ? "" : pathname   (lines 262-263)
redirectPathOf(pathname) == IF pathname = <<"">> THEN <<>> ELSE pathname

\* faulty variant of urlHasCountryCode: the segment is compared with the default
\* region instead of the resolved country code
urlHasDefaultRegion(request, countryCode) ==
    /\ Truthy(countryCode)
    /\ toLowerCase(firstSplit(request.pathname)) = toLowerCase(DEFAULT_REGION)

\* const urlHasCountryCode = countryCode && split("/")[1]?.toLowerCase() ===
\*   countryCode.toLowerCase()   (lines 267-270)
urlHasCountryCode(request, countryCode) ==
    /\ Truthy(countryCode)
    /\ toLowerCase(firstSplit(request.pathname)) = toLowerCase(countryCode)

\* const fallbackCountry = DEFAULT_REGION || "dk"   (line 272)
fallbackCountry == IF Truthy(DEFAULT_REGION) THEN DEFAULT_REGION ELSE "dk"

\* pathSegments[0]?.toLowerCase() === fallbackCountry.toLowerCase()
urlAlreadyHasFallback(request) ==
    LET first == firstNonEmpty(request.pathname)
    IN  first # Undefined /\ toLowerCase(first) = toLowerCase(fallbackCountry)

\* faulty variant of emptyDirectoryResponse: the segment is compared as written,
\* without lower-casing
emptyDirectoryExactCase(request) ==
    IF firstNonEmpty(request.pathname) = fallbackCountry THEN nextResponse
    ELSE redirectResponse(fallbackCountry, redirectPathOf(request.pathname),
                          request.search)

\* the branch taken when the directory is empty, lines 275-288
emptyDirectoryResponse(request) ==
    IF urlAlreadyHasFallback(request) THEN nextResponse
    ELSE redirectResponse(fallbackCountry, redirectPathOf(request.pathname),
                          request.search)

\* faulty variant of countryInUrlResponse: the cookie is set on every pass-through
countryInUrlAlwaysSetsCookie(request, cacheId) == nextWithCookie(cacheId)

\* lines 290-303: the url has the country code
countryInUrlResponse(request, cacheId) ==
    IF request.cookie # Undefined THEN nextResponse ELSE nextWithCookie(cacheId)

\* lines 319-335: no country code could be resolved
noCountryResponse(request, cacheId) ==
    IF urlAlreadyHasFallback(request)
    THEN IF request.cookie = Undefined THEN nextWithCookie(cacheId) ELSE nextResponse
    ELSE redirectResponse(fallbackCountry, redirectPathOf(request.pathname),
                          request.search)

\* the decision of middleware once regionMap and countryCode are known,
\* lines 262-337; regionMap is the Map as it is when line 275 reads it
decide(request, cacheId, regionMap, countryCode) ==
    IF Len(regionMap) = 0 THEN emptyDirectoryResponse(request)
    ELSE IF urlHasCountryCode(request, countryCode)
      THEN countryInUrlResponse(request, cacheId)
    ELSE IF includesDot(request.pathname) THEN nextResponse
    ELSE IF Truthy(countryCode)
      THEN redirectResponse(countryCode, redirectPathOf(request.pathname),
                            request.search)
    ELSE IF ~Truthy(countryCode) THEN noCountryResponse(request, cacheId)
    ELSE hrefRedirect(request)

(***************************************************************************)
(* The invocations                                                         *)
(***************************************************************************)
NoRequest ==
    [pathname |-> <<>>, search |-> "", cf |-> Undefined, vercel |-> Undefined,
     cookie |-> Undefined]

NoFetch == [status |-> 0, regions |-> <<>>]

\* a free slot
Idle ==
    [pc |-> "idle", request |-> NoRequest, cacheId |-> Undefined,
     response |-> NoFetch, regionMap |-> Undefined, countryCode |-> Undefined,
     result |-> NoResult]

\* the Map a local `regionMap` refers to: the cache's Map object, which later
\* refreshes mutate in place, or the new empty Map of line 193
deref(ref) == IF ref = "cache" THEN regionMapCache.regionMap ELSE EmptyMap

Init ==
    /\ regionMapCache = [regionMap |-> EmptyMap, regionMapUpdated |-> 0]
    /\ now = 0
    /\ BACKEND_URL \in {Undefined, "http://medusa:9000"}
    /\ ENV_DEFAULT_REGION \in {Undefined, "US"}
    /\ inv = [p \in Procs |-> Idle]

\* Date.now() advances
Tick ==
    /\ now < MaxTicks * TickLength
    /\ now' = now + TickLength
    /\ UNCHANGED <<regionMapCache, BACKEND_URL, ENV_DEFAULT_REGION, inv>>

\* middleware is entered, lines 250-258, and getRegionMap runs to its first
\* await or return, lines 159-172 and 206
Start(p, requests) ==
    /\ inv[p].pc = "idle"
    /\ \E request \in requests, uuid \in UUIDs :
         LET cacheId == IF Truthy(request.cookie) THEN request.cookie ELSE uuid
             entered == [Idle EXCEPT !.request = request, !.cacheId = cacheId]
         IN  inv' = [inv EXCEPT ![p] =
               IF ~Truthy(BACKEND_URL)
                 THEN [entered EXCEPT !.pc = "failed",
                         !.result = thrown(MissingBackendUrl)]
               ELSE IF needsRefresh(regionMapCache, now)
                 THEN [entered EXCEPT !.pc = "fetch"]
               ELSE [entered EXCEPT !.pc = "gotMap", !.regionMap = "cache"]]
    /\ UNCHANGED <<regionMapCache, now, BACKEND_URL, ENV_DEFAULT_REGION>>

\* await fetch(...) resolves, lines 172-186
FetchResolves(p) ==
    /\ inv[p].pc = "fetch"
    /\ \E response \in FetchResponses :
         inv' = [inv EXCEPT ![p] =
           IF ~ok(response)
             THEN [@ EXCEPT !.pc = "failed", !.response = response,
                     !.result = thrown("Backend returned 500")]
           ELSE [@ EXCEPT !.pc = "json", !.response = response]]
    /\ UNCHANGED <<regionMapCache, now, BACKEND_URL, ENV_DEFAULT_REGION>>

\* await fetch(...) rejects: the backend cannot be reached, line 172
FetchRejects(p) ==
    /\ inv[p].pc = "fetch"
    /\ inv' = [inv EXCEPT ![p] =
         [@ EXCEPT !.pc = "failed", !.result = thrown("fetch failed")]]
    /\ UNCHANGED <<regionMapCache, now, BACKEND_URL, ENV_DEFAULT_REGION>>

\* await response.json() resolves with the documented body; the region list
\* is processed and getRegionMap returns, lines 188-206
JsonResolves(p) ==
    /\ inv[p].pc = "json"
    /\ LET regions == inv[p].response.regions
       IN  /\ regionMapCache' = refreshed(regionMapCache, regions, now)
           /\ inv' = [inv EXCEPT ![p] =
                [@ EXCEPT !.pc = "gotMap", !.response = NoFetch,
                   !.regionMap = IF Len(regions) = 0 THEN "fresh" ELSE "cache"]]
    /\ UNCHANGED <<now, BACKEND_URL, ENV_DEFAULT_REGION>>

\* await getRegionMap(...) resumes and getCountryCode runs, lines 258-260
CountryCode(p) ==
    /\ inv[p].pc = "gotMap"
    /\ inv' = [inv EXCEPT ![p] =
         [@ EXCEPT !.pc = "gotCountry",
            !.countryCode = getCountryCode(inv[p].request,
                                           deref(inv[p].regionMap))]]
    /\ UNCHANGED <<regionMapCache, now, BACKEND_URL, ENV_DEFAULT_REGION>>

\* await getCountryCode(...) resumes and middleware returns, lines 262-337
Respond(p) ==
    /\ inv[p].pc = "gotCountry"
    /\ inv' = [inv EXCEPT ![p] =
         [@ EXCEPT !.pc = "done",
            !.result = decide(inv[p].request, inv[p].cacheId,
                              deref(inv[p].regionMap), inv[p].countryCode)]]
    /\ UNCHANGED <<regionMapCache, now, BACKEND_URL, ENV_DEFAULT_REGION>>

\* the runtime has delivered the response, or the error, of the invocation
Return(p) ==
    /\ inv[p].pc \in {"done", "failed"}
    /\ inv' = [inv EXCEPT ![p] = Idle]
    /\ UNCHANGED <<regionMapCache, now, BACKEND_URL, ENV_DEFAULT_REGION>>

\* one invocation at a time, over every request
Next ==
    \/ Tick
    \/ Start(1, Requests)
    \/ FetchResolves(1)
    \/ FetchRejects(1)
    \/ JsonResolves(1)
    \/ CountryCode(1)
    \/ Respond(1)
    \/ Return(1)

Spec == Init /\ [][Next]_vars

\* two invocations that interleave at every await
ConcurrentNext ==
    \/ Tick
    \/ \E p \in Procs : Start(p, ConcurrentRequests(p))
    \/ \E p \in Procs : FetchResolves(p)
    \/ \E p \in Procs : FetchRejects(p)
    \/ \E p \in Procs : JsonResolves(p)
    \/ \E p \in Procs : CountryCode(p)
    \/ \E p \in Procs : Respond(p)
    \/ \E p \in Procs : Return(p)

ConcurrentSpec == Init /\ [][ConcurrentNext]_vars

(***************************************************************************)
(* Vocabulary of the properties                                            *)
(***************************************************************************)
\* the directory an invocation holds
directoryOf(p) == deref(inv[p].regionMap)

\* the invocation in slot p has returned a response
Returned(p) == inv[p].pc = "done"

PassThrough(r) == r.kind = "next"

Redirect(r) == r.kind = "redirect"

\* the first segment of a pathname, "" for "/"
FirstSegment(pathname) ==
    IF firstNonEmpty(pathname) = Undefined THEN "" ELSE firstNonEmpty(pathname)

\* two strings that are equal up to letter case
SameIgnoringCase(a, b) == toLowerCase(a) = toLowerCase(b)

\* the URL origin + "/" + code + P + query, P being the pathname, or the
\* empty string when the pathname is "/"
PrefixedUrl(code, request) ==
    [origin |-> Origin,
     pathname |-> IF request.pathname = <<"">> THEN <<code>>
                  ELSE <<code>> \o request.pathname,
     search |-> request.search]

\* the Set-Cookie of the correlation cookie
CorrelationCookie(value) ==
    [name |-> "_medusa_cache_id", value |-> value, maxAge |-> 86400]

(***************************************************************************)
(* C1: a request whose path contains a "." is passed through and never     *)
(* redirected, whatever the directory, the hints, the default region and   *)
(* the cookie are.                                                         *)
(***************************************************************************)
C1_StaticAssetNeverRedirected ==
    \A p \in Procs :
        Returned(p) /\ includesDot(inv[p].request.pathname)
            => PassThrough(inv[p].result)

(***************************************************************************)
(* C2                                                                      *)
(***************************************************************************)
\* no key of the directory is the first segment of the pathname, up to case
LacksCountryPrefix(request, directory) ==
    ~\E k \in MapKeys(directory) :
        Truthy(k) /\ SameIgnoringCase(k, firstSplit(request.pathname))

\* middleware run again on the target of a redirect, with the same
\* directory, hints and cookie
Rerun(p) ==
    LET again == [inv[p].request EXCEPT !.pathname = inv[p].result.url.pathname,
                                        !.search = inv[p].result.url.search]
    IN  decide(again, inv[p].cacheId, directoryOf(p),
               getCountryCode(again, directoryOf(p)))

\* C2, as stated: every request path that lacks a valid country prefix, while
\* a country code C is resolved from the directory, is redirected (307) to
\* {origin}/{C}{path}{query} (the path being empty for "/", as C3 has it),
\* and middleware passes the redirected path through.
C2_RedirectsEveryUnprefixedPath ==
    \A p \in Procs :
        /\ Returned(p)
        /\ LacksCountryPrefix(inv[p].request, directoryOf(p))
        /\ Truthy(inv[p].countryCode)
        => /\ Redirect(inv[p].result)
           /\ inv[p].result.status = 307
           /\ inv[p].result.url = PrefixedUrl(inv[p].countryCode, inv[p].request)
           /\ PassThrough(Rerun(p))

\* C2, amended: every request path that contains no "." and lacks a valid
\* country prefix, while a country code C is resolved from the directory, is
\* redirected (307) to {origin}/{C}{P}{query}, P being the path, or the empty
\* string when the path is "/"; and middleware passes the redirected path
\* through, without a second redirect.
C2_RedirectsUnprefixedPathOnce ==
    \A p \in Procs :
        /\ Returned(p)
        /\ ~includesDot(inv[p].request.pathname)
        /\ LacksCountryPrefix(inv[p].request, directoryOf(p))
        /\ Truthy(inv[p].countryCode)
        => /\ Redirect(inv[p].result)
           /\ inv[p].result.status = 307
           /\ inv[p].result.url = PrefixedUrl(inv[p].countryCode, inv[p].request)
           /\ PassThrough(Rerun(p))

\* a path without prefix was redirected to a country resolved from a hint
C2_Witness ==
    \E p \in Procs :
        /\ Returned(p)
        /\ inv[p].request.pathname = <<"products", "shirt">>
        /\ inv[p].request.search = "?q=1"
        /\ inv[p].countryCode = "us"
        /\ LacksCountryPrefix(inv[p].request, directoryOf(p))
        /\ Redirect(inv[p].result)
        /\ inv[p].result.url.pathname = <<"us", "products", "shirt">>
        /\ PassThrough(Rerun(p))

(***************************************************************************)
(* C3: every redirect has status 307 and the target origin + "/" + code +  *)
(* P + query, where code is the resolved country code, or the fallback     *)
(* region when none is resolved or the directory is empty, query is the    *)
(* request's query string, and P is the request's path, or the empty       *)
(* string when the path is "/".                                            *)
(***************************************************************************)
C3_RedirectTarget ==
    \A p \in Procs :
        Returned(p) /\ Redirect(inv[p].result)
        => LET code == IF Truthy(inv[p].countryCode) /\ directoryOf(p) # EmptyMap
                        THEN inv[p].countryCode
                        ELSE DEFAULT_REGION
           IN  /\ inv[p].result.status = 307
               /\ inv[p].result.url = PrefixedUrl(code, inv[p].request)
               /\ inv[p].request.pathname = <<"">>
                    => inv[p].result.url.pathname = <<code>>

\* the root path, with a query, was redirected to /{code}
C3_Witness ==
    \E p \in Procs :
        /\ Returned(p) /\ Redirect(inv[p].result)
        /\ inv[p].request.pathname = <<"">>
        /\ inv[p].request.search = "?q=1"
        /\ inv[p].countryCode = "dk"
        /\ inv[p].result.url.pathname = <<"dk">>
        /\ inv[p].result.url.search = "?q=1"

\* the backend answered this invocation with zero regions
AnsweredZeroRegions(p) == inv[p].regionMap = "fresh"

(***************************************************************************)
(* C4: when the backend answers with zero regions the invocation does not  *)
(* fail; it holds an empty directory, redirects (307) every path whose     *)
(* first segment is not the fallback region to the fallback-prefixed path, *)
(* and passes through every path whose first segment is the fallback       *)
(* region (segments compared without regard to case).                      *)
(***************************************************************************)
C4_EmptyDirectoryFallback ==
    \A p \in Procs :
        AnsweredZeroRegions(p)
        => /\ inv[p].pc \in {"gotMap", "gotCountry", "done"}
           /\ directoryOf(p) = EmptyMap
           /\ Returned(p) =>
                IF SameIgnoringCase(FirstSegment(inv[p].request.pathname),
                                    DEFAULT_REGION)
                THEN PassThrough(inv[p].result)
                ELSE /\ Redirect(inv[p].result)
                     /\ inv[p].result.status = 307
                     /\ inv[p].result.url = PrefixedUrl(DEFAULT_REGION, inv[p].request)

\* with zero regions, a request was redirected to the fallback region
C4_Witness ==
    \E p \in Procs :
        /\ AnsweredZeroRegions(p) /\ Returned(p)
        /\ inv[p].request.pathname = <<"us">>
        /\ DEFAULT_REGION = "dk"
        /\ Redirect(inv[p].result)
        /\ inv[p].result.url.pathname = <<"dk", "us">>

(***************************************************************************)
(* C5: with a non-empty directory, a request whose first path segment      *)
(* equals the resolved country code, up to case, is passed through and     *)
(* never redirected, and the response sets the _medusa_cache_id cookie     *)
(* (max-age 24 h) exactly when the request carried no such cookie.         *)
(***************************************************************************)
C5_PrefixedPathPassesThrough ==
    \A p \in Procs :
        /\ Returned(p)
        /\ directoryOf(p) # EmptyMap
        /\ Truthy(inv[p].countryCode)
        /\ SameIgnoringCase(firstSplit(inv[p].request.pathname), inv[p].countryCode)
        => /\ PassThrough(inv[p].result)
           /\ inv[p].request.cookie # Undefined => inv[p].result.setCookie = <<>>
           /\ inv[p].request.cookie = Undefined =>
                inv[p].result.setCookie = << CorrelationCookie(inv[p].cacheId) >>

\* a prefixed request that carried the cookie was passed through unchanged
C5_Witness ==
    \E p \in Procs :
        /\ Returned(p)
        /\ inv[p].request.pathname = <<"US", "products">>
        /\ inv[p].request.cookie = "c1"
        /\ inv[p].countryCode = "us"
        /\ PassThrough(inv[p].result)
        /\ inv[p].result.setCookie = <<>>

Candidates(request) ==
    << toLowerCase(firstSplit(request.pathname)),
       IF request.cf = Undefined THEN Undefined ELSE toLowerCase(request.cf),
       IF request.vercel = Undefined THEN Undefined ELSE toLowerCase(request.vercel),
       DEFAULT_REGION >>

FirstCandidateInDirectory(request, directory) ==
    LET c == Candidates(request)
        present == {i \in 1..Len(c) : Truthy(c[i]) /\ MapHas(directory, c[i])}
    IN  IF present # {}
          THEN c[CHOOSE i \in present : \A j \in present : i <= j]
        ELSE IF directory # EmptyMap THEN directory[1].key
        ELSE Undefined

(***************************************************************************)
(* C6: getCountryCode returns the first of these candidates that is a key  *)
(* of the directory: the lower-cased first path segment, the Cloudflare    *)
(* hint, the x-vercel-ip-country hint, the default region (a candidate    *)
(* that is absent or empty is passed over); if none is a key, the first    *)
(* entry of the directory whenever the directory is not empty, and         *)
(* undefined only otherwise.                                               *)
(***************************************************************************)
C6_FirstCandidateWins ==
    \A p \in Procs :
        inv[p].pc \in {"gotCountry", "done"}
            => inv[p].countryCode
                 = FirstCandidateInDirectory(inv[p].request, directoryOf(p))

\* slot p calls getRegionMap in this step and the call does not throw at once
CallsGetRegionMap(p) == inv[p].pc = "idle" /\ inv'[p].pc \in {"fetch", "gotMap"}

CacheEmptyOrOlderThanOneHour ==
    \/ regionMapCache.regionMap = EmptyMap
    \/ now - regionMapCache.regionMapUpdated > 3600000

(***************************************************************************)
(* C7: a getRegionMap call fetches from the backend if and only if the     *)
(* cached directory is empty or was refreshed more than one hour ago; a    *)
(* call that finds it non-empty and fresh returns it without a fetch.      *)
(***************************************************************************)
C7_FetchesIffEmptyOrStale ==
    [][\A p \in Procs :
         CallsGetRegionMap(p)
           => /\ inv'[p].pc = "fetch" <=> CacheEmptyOrOlderThanOneHour
              /\ inv'[p].pc = "gotMap" => inv'[p].regionMap = "cache"]_vars

\* slot p processes a fetched, non-empty region list in this step
Refreshes(p) ==
    /\ inv[p].pc = "json" /\ inv'[p].pc = "gotMap"
    /\ Len(inv[p].response.regions) > 0

\* the country codes of a region list (a missing iso_2 counts as "") and the
\* last region of the list that names a code
CodeOf(iso) == IF iso = Undefined THEN "" ELSE iso

ListedCodes(regions) ==
    UNION { { CodeOf(regions[i].countries[j]) : j \in 1..Len(regions[i].countries) }
            : i \in 1..Len(regions) }

RegionListing(regions, code) ==
    LET at == { i \in 1..Len(regions) :
                  \E j \in 1..Len(regions[i].countries) :
                      CodeOf(regions[i].countries[j]) = code }
    IN  regions[CHOOSE i \in at : \A k \in at : k <= i].id

(***************************************************************************)
(* C8: a refresh replaces the directory wholesale: after it, the cached    *)
(* mapping holds exactly the country codes of the region list just         *)
(* fetched, each mapped to its region.                                     *)
(***************************************************************************)
C8_RefreshReplacesDirectory ==
    [][\A p \in Procs :
         Refreshes(p)
           => /\ MapKeys(regionMapCache'.regionMap)
                   = ListedCodes(inv[p].response.regions)
              /\ \A code \in ListedCodes(inv[p].response.regions) :
                   MapGet(regionMapCache'.regionMap, code)
                     = RegionListing(inv[p].response.regions, code)]_vars

\* slot p enters middleware in this step
Enters(p) == inv[p].pc = "idle" /\ inv'[p].pc # "idle"

\* the fetch of slot p resolves in this step
FetchAnswered(p) == inv[p].pc = "fetch" /\ inv'[p].pc # "fetch"

\* the invocation of slot p fails in this step
Fails(p) == inv[p].pc # "failed" /\ inv'[p].pc = "failed"

(***************************************************************************)
(* C9: when the backend URL is not configured, or the backend answers with *)
(* a non-success status, getRegionMap throws and the error leaves          *)
(* middleware: the invocation produces no pass-through and no redirect,    *)
(* does not fetch again, and leaves the cached directory and its timestamp *)
(* as they were.                                                           *)
(***************************************************************************)
C9_FailureIsPropagatedAndLeavesCache ==
    [][\A p \in Procs :
         /\ Enters(p) /\ BACKEND_URL \in {Undefined, ""} => Fails(p)
         /\ FetchAnswered(p)
              /\ ~(inv'[p].response.status \in 200..299) => Fails(p)
         /\ Fails(p)
              => /\ inv'[p].result.kind = "error"
                 /\ inv'[p].result.url = NoUrl
                 /\ inv'[p].result.setCookie = <<>>
                 /\ regionMapCache' = regionMapCache
         /\ inv[p].pc = "failed" => inv'[p].pc \in {"failed", "idle"}]_vars

\* one invocation has failed on a backend error, over a directory cached
\* earlier that the failure left in place, and the other invocation, which
\* ran meanwhile, has returned a response
C9_Witness ==
    /\ inv[1].pc = "failed"
    /\ inv[1].result.error = "Backend returned 500"
    /\ regionMapCache.regionMap # EmptyMap
    /\ inv[2].pc = "done"
    /\ inv[2].result.kind \in {"next", "redirect"}

====
